---- MODULE Spec2Model ----
(***************************************************************************)
(* Model of the tool-call orchestration loop of the activities agent:      *)
(* AgentOrchestrator (agents/orchestrator.py), the availability filter     *)
(* (agents/available_tools.py), the JSON preferences store                 *)
(* (agents/tools/preferences.py) and the /chat endpoint (api/routes.py).   *)
(*                                                                         *)
(* Encoding of Python values:                                              *)
(*   - a str is a sequence of tokens (TLA+ strings); "" is << >>;          *)
(*   - None is the token None for scalars and the one-token text NoneText  *)
(*     where a str is expected (no program text contains that token);      *)
(*   - a dict is a TLA+ record / function on its keys;                     *)
(*   - JSON numbers are written as their numerals ("30").                  *)
(***************************************************************************)
EXTENDS Integers, Sequences, FiniteSets, TLC

(***************************************************************************)
(* Bounds of the model                                                     *)
(***************************************************************************)
\* tool requests one model turn may propose
MaxToolCalls == 2
\* tool requests the model proposes to the main loop of one call
MaxRequests == 3
\* nesting depth of _get_completion at which the interpreter stops recursion
RecursionLimit == 3
\* process_message calls between two resets; /chat requests in flight
MaxCalls == 2
\* Thread objects start_scraper_scheduler creates in one run
MaxThreads == 3
\* threads calling start_scraper_scheduler and stop_scraper_scheduler at the same time
MaxCallers == 2

(***************************************************************************)
(* Program constants                                                       *)
(***************************************************************************)
\* variant: one iteration fewer
max_iterations_Two == 3 - 1

max_iterations == 3

None == "None"
NoneText == <<None>>
Unbound == <<"<unbound>">>

OPENROUTER_DEFAULT_MODEL == "xiaomi/mimo-v2-flash:free"
OPENROUTER_BACKUP_MODEL == "google/gemini-2.0-flash-exp:free"

\* variant: the allow-list names a tool that is not registered
ALLOWLISTED_TOOLS_Unregistered ==
    {"get_user_preferences", "update_user_preferences", "save_to_sheets", "get_weather"}

ALLOWLISTED_TOOLS == {"get_user_preferences", "update_user_preferences", "save_to_sheets"}

TOOL_DISPLAY_NAMES ==
    [ search_places_for_dates |-> "Google Maps",
      get_weather_for_location |-> "Weather",
      scrape_activities |-> "Web Scraper",
      save_to_sheets |-> "Google Sheets",
      get_user_preferences |-> "Preferences",
      update_user_preferences |-> "Preferences" ]

\* the function names of the schema declarations listed in ALL_TOOLS, in list order
DeclaredNames ==
    << "scrape_activities", "save_to_sheets", "get_user_preferences", "update_user_preferences",
       "search_places_for_dates", "get_weather_for_location" >>

\* names with a registered callable
TOOL_FUNCTIONS ==
    {"scrape_activities", "save_to_sheets", "get_user_preferences",
     "update_user_preferences", "search_places_for_dates", "get_weather_for_location"}

\* ALL_TOOLS, reduced to what _execute_tool reads: name -> required parameters
ALL_TOOLS ==
    [ scrape_activities |-> {"query"},
      save_to_sheets |-> {"activities"},
      get_user_preferences |-> {"user_id"},
      update_user_preferences |-> {"user_id"},
      search_places_for_dates |-> {"location1"},
      get_weather_for_location |-> {"location"} ]

(***************************************************************************)
(* Text helpers (str operations used by the orchestrator)                  *)
(***************************************************************************)
Whitespace == {" ", "\n\n"}

RECURSIVE LStrip(_)
LStrip(s) == IF s # << >> /\ Head(s) \in Whitespace THEN LStrip(Tail(s)) ELSE s

RECURSIVE RStrip(_)
RStrip(s) ==
    IF s # << >> /\ s[Len(s)] \in Whitespace THEN RStrip(SubSeq(s, 1, Len(s) - 1)) ELSE s

\* str.strip()
Strip(s) == RStrip(LStrip(s))

\* sep.join(items), items a list of names
RECURSIVE Join(_, _)
Join(sep, items) ==
    IF items = << >> THEN << >>
    ELSE IF Len(items) = 1 THEN <<items[1]>>
    ELSE <<items[1], sep>> \o Join(sep, Tail(items))

\* variant: the default is not substituted
OrText_NoDefault(x, default) == x

\* x or default, for a nullable str
OrText(x, default) == IF x = NoneText \/ x = << >> THEN default ELSE x

(***************************************************************************)
(* Availability filter (agents/available_tools.py)                         *)
(***************************************************************************)
Contains(list, x) == \E i \in 1..Len(list) : list[i] = x

\* TOOL_DISPLAY_NAMES.get(tool_name, tool_name)
DisplayName(tool_name) ==
    IF tool_name \in DOMAIN TOOL_DISPLAY_NAMES THEN TOOL_DISPLAY_NAMES[tool_name] ELSE tool_name

\* variant: every request passes the filter
IsAllowed_Any(tool_name) == TRUE

\* variant: every registered tool passes the filter
IsAllowed_Registered(tool_name) == tool_name \in TOOL_FUNCTIONS

\* the allow-list test of one request
IsAllowed(tool_name) == tool_name \in ALLOWLISTED_TOOLS

\* variant: append without the membership test
AppendIfMissing_Always(list, x) == Append(list, x)

\* list.append(x) unless x is already in the list
AppendIfMissing(list, x) == IF Contains(list, x) THEN list ELSE Append(list, x)

\* variant: the argument string is not carried over
ToolCallDict_NoArguments(tc) ==
    [ id |-> tc.id, type |-> tc.type,
      function |-> [name |-> tc.function.name, arguments |-> "{}"] ]

\* the dict stored in the conversation history for an allowed request
ToolCallDict(tc) ==
    [ id |-> tc.id, type |-> tc.type,
      function |-> [name |-> tc.function.name, arguments |-> tc.function.arguments] ]

\* the for loop of filter_to_available_tools, from request i on
RECURSIVE FilterFrom(_, _, _, _)
FilterFrom(i, tool_calls, filtered, skipped_display_names) ==
    IF i > Len(tool_calls)
    THEN [filtered |-> filtered, skipped |-> skipped_display_names]
    ELSE IF ~IsAllowed(tool_calls[i].function.name)
         THEN FilterFrom(i + 1, tool_calls, filtered,
                         AppendIfMissing(skipped_display_names,
                                         DisplayName(tool_calls[i].function.name)))
         ELSE FilterFrom(i + 1, tool_calls, Append(filtered, ToolCallDict(tool_calls[i])),
                         skipped_display_names)

filter_to_available_tools(tool_calls) == FilterFrom(1, tool_calls, << >>, << >>)

(***************************************************************************)
(* Advisory text                                                           *)
(***************************************************************************)
\* variant: no advisory is built
build_skipped_tools_message_None(skipped_tools) == NoneText

\* AgentOrchestrator._build_skipped_tools_message
build_skipped_tools_message(skipped_tools) ==
    IF skipped_tools = << >> THEN NoneText
    ELSE <<"I wanted to use ">>
         \o (IF Len(skipped_tools) <= 2
             THEN Join(" and ", skipped_tools)
             ELSE Join(", ", SubSeq(skipped_tools, 1, Len(skipped_tools) - 1))
                  \o <<", and ", skipped_tools[Len(skipped_tools)]>>)
         \o <<", but the website owner has disabled them unless you know the magic word.">>

(***************************************************************************)
(* Argument payloads and json                                              *)
(***************************************************************************)
ArgsMallory == "{\"user_id\": \"mallory\", \"budget_max\": 30}"
ArgsEmpty == "{}"
ArgsLocation == "{\"location\": \"NYC\"}"
\* a truncated payload, not valid JSON
ArgsMalformed == "{\"location\": "

\* valid JSON that is not an object
ArgsNull == "null"
ArgsList == "[]"
ArgsNumber == "5"
ArgsString == "\"NYC\""

\* a decoded JSON value that is not a dict: None, a list, a number or a str
NonObject(kind) == [non_object |-> kind]

\* the decoded value is a dict
IsMapping(arguments) == "non_object" \notin DOMAIN arguments

\* json.dumps of the arguments of the stand-in scenarios (agents/mock_data.py)
ArgsDefaultUser == "{\"user_id\": \"default\"}"
ArgsScrapeFun == "{\"query\": \"fun activities\", \"location_a\": \"San Francisco\"}"
ArgsScrapeConcert == "{\"query\": \"outdoor concert\", \"location_a\": \"San Francisco\"}"
ArgsWeatherSF == "{\"location\": \"San Francisco, CA\"}"
ArgsPlaces == "{\"location1\": \"San Francisco, CA\", \"location2\": \"Oakland, CA\", \"place_types\": [\"cafe\", \"restaurant\", \"park\"]}"
ArgsSheets == "{\"activities\": [{\"name\": \"Test Activity\", \"location\": \"SF\"}], \"spreadsheet_id\": \"mock-sheet-id\"}"
ArgsNestedPreferences == "{\"user_id\": \"default\", \"preferences\": {\"interests\": [\"outdoor\", \"food\"], \"cuisine\": \"Italian\"}}"

\* json.loads on the payloads of the model: [ok, value]; ok = FALSE is JSONDecodeError
JsonLoads(payload) ==
    CASE payload = ArgsMallory -> [ok |-> TRUE, value |-> [user_id |-> "mallory", budget_max |-> "30"]]
      [] payload = ArgsNull -> [ok |-> TRUE, value |-> NonObject("NoneType")]
      [] payload = ArgsList -> [ok |-> TRUE, value |-> NonObject("list")]
      [] payload = ArgsNumber -> [ok |-> TRUE, value |-> NonObject("int")]
      [] payload = ArgsString -> [ok |-> TRUE, value |-> NonObject("str")]
      [] payload = ArgsDefaultUser -> [ok |-> TRUE, value |-> [user_id |-> "default"]]
      [] payload = ArgsScrapeFun ->
            [ok |-> TRUE, value |-> [query |-> "fun activities", location_a |-> "San Francisco"]]
      [] payload = ArgsScrapeConcert ->
            [ok |-> TRUE, value |-> [query |-> "outdoor concert", location_a |-> "San Francisco"]]
      [] payload = ArgsWeatherSF -> [ok |-> TRUE, value |-> [location |-> "San Francisco, CA"]]
      [] payload = ArgsPlaces ->
            [ok |-> TRUE, value |-> [location1 |-> "San Francisco, CA", location2 |-> "Oakland, CA",
                                     place_types |-> <<"cafe", "restaurant", "park">>]]
      [] payload = ArgsSheets ->
            [ok |-> TRUE, value |-> [activities |-> <<"Test Activity">>,
                                     spreadsheet_id |-> "mock-sheet-id"]]
      [] payload = ArgsNestedPreferences ->
            [ok |-> TRUE, value |-> [user_id |-> "default", preferences |-> "Italian"]]
      [] payload = ArgsEmpty -> [ok |-> TRUE, value |-> << >>]
      [] payload = ArgsLocation -> [ok |-> TRUE, value |-> [location |-> "NYC"]]
      [] OTHER -> [ok |-> FALSE, value |-> << >>]

\* variant: a payload that fails to decode yields a default object
DecodeArguments_Default(payload) ==
    IF JsonLoads(payload).ok THEN JsonLoads(payload).value ELSE [location |-> "NYC"]

\* the try/except around json.loads in process_message
DecodeArguments(payload) == IF JsonLoads(payload).ok THEN JsonLoads(payload).value ELSE << >>

DumpsScalar(v) == IF v = None THEN "null" ELSE v

\* json.dumps of a tool result
Dumps(result) ==
    IF "budget_max" \in DOMAIN result
    THEN <<"{\"user_id\": ", result.user_id, ", \"location\": ", DumpsScalar(result.location),
           ", \"interests\": [">> \o Join(", ", result.interests)
         \o <<"], \"budget_min\": ", DumpsScalar(result.budget_min),
              ", \"budget_max\": ", DumpsScalar(result.budget_max), "}">>
    ELSE IF "error" \in DOMAIN result
    THEN <<"{\"error\": ">> \o result.error \o <<"}">>
    ELSE IF "spreadsheet_id" \in DOMAIN result
    THEN <<"{\"spreadsheet_id\": ", result.spreadsheet_id, ", \"spreadsheet_url\": ",
           result.spreadsheet_url, ", \"rows_updated\": ", result.rows_updated, "}">>
    ELSE <<"{\"temperature\": ", result.temperature, "}">>

(***************************************************************************)
(* Preferences store, JSON backend (agents/tools/preferences.py)           *)
(***************************************************************************)
Users == {"alice", "mallory"}

DefaultPrefs(uid) ==
    [user_id |-> uid, location |-> None, interests |-> << >>,
     budget_min |-> None, budget_max |-> None]

\* the store is the content of user_preferences.json: user id -> record
_get_user_preferences_json(store, uid) ==
    IF uid \in DOMAIN store THEN store[uid] ELSE DefaultPrefs(uid)

\* variant: every field takes the argument's value, None included
UpdatedRecord_Overwrite(store, uid, location, interests, budget_min, budget_max) ==
    [ user_id |-> uid, location |-> location,
      interests |-> IF interests # NoneText THEN interests ELSE << >>,
      budget_min |-> budget_min, budget_max |-> budget_max ]

\* the record update_user_preferences writes for uid
UpdatedRecord(store, uid, location, interests, budget_min, budget_max) ==
    LET old == _get_user_preferences_json(store, uid) IN
    [ user_id |-> old.user_id,
      location |-> IF location # None THEN location ELSE old.location,
      interests |-> IF interests # NoneText THEN interests ELSE old.interests,
      budget_min |-> IF budget_min # None THEN budget_min ELSE old.budget_min,
      budget_max |-> IF budget_max # None THEN budget_max ELSE old.budget_max ]

\* _update_user_preferences_json: the store after the save
_update_user_preferences_json(store, uid, location, interests, budget_min, budget_max) ==
    [u \in DOMAIN store \cup {uid} |->
        IF u = uid
        THEN UpdatedRecord(store, uid, location, interests, budget_min, budget_max)
        ELSE store[u]]

(***************************************************************************)
(* Tool callables                                                          *)
(***************************************************************************)
\* keyword parameters of each callable, and those without a default
Params ==
    [ scrape_activities |-> {"query", "location_a", "location_b", "filters"},
      save_to_sheets |-> {"activities", "spreadsheet_id"},
      get_user_preferences |-> {"user_id"},
      update_user_preferences |-> {"user_id", "location", "interests", "budget_min", "budget_max"},
      search_places_for_dates |-> {"location1", "location2", "place_types", "price_level",
                                   "min_rating", "radius", "check_weather", "user_interests"},
      get_weather_for_location |-> {"location", "date"} ]

Positional ==
    [ scrape_activities |-> {"query"},
      save_to_sheets |-> {"activities"},
      get_user_preferences |-> {"user_id"},
      update_user_preferences |-> {"user_id"},
      search_places_for_dates |-> {"location1"},
      get_weather_for_location |-> {"location"} ]

\* kwargs.get(k), None when absent
Kw(kwargs, k) == IF k \in DOMAIN kwargs THEN kwargs[k] ELSE None
KwList(kwargs, k) == IF k \in DOMAIN kwargs THEN kwargs[k] ELSE NoneText

\* what the callables may do: return, or raise an exception
ToolFaults == {"ok", "raise"}
FaultMessage == <<"no api key">>
TypeErrorMessage == <<"unexpected or missing keyword argument">>

\* func(**kwargs): [raised, value, store]; value is the result, or str(e) when raised
CallTool(tool_name, kwargs, store, fault) ==
    IF ~IsMapping(kwargs)
    THEN [raised |-> TRUE, value |-> <<"argument after ** must be a mapping">>, store |-> store]
    ELSE IF ~(DOMAIN kwargs \subseteq Params[tool_name]) \/ ~(Positional[tool_name] \subseteq DOMAIN kwargs)
    THEN [raised |-> TRUE, value |-> TypeErrorMessage, store |-> store]
    ELSE IF fault = "raise"
    THEN [raised |-> TRUE, value |-> FaultMessage, store |-> store]
    ELSE CASE tool_name = "get_user_preferences" ->
                [raised |-> FALSE, value |-> _get_user_preferences_json(store, kwargs.user_id),
                 store |-> store]
           [] tool_name = "update_user_preferences" ->
                LET after == _update_user_preferences_json(store, kwargs.user_id,
                                 Kw(kwargs, "location"), KwList(kwargs, "interests"),
                                 Kw(kwargs, "budget_min"), Kw(kwargs, "budget_max"))
                IN [raised |-> FALSE, value |-> after[kwargs.user_id], store |-> after]
           [] tool_name = "save_to_sheets" ->
                [raised |-> FALSE,
                 value |-> [spreadsheet_id |-> "sheet-1", spreadsheet_url |-> "https://docs.google.com/spreadsheets/d/sheet-1",
                            rows_updated |-> "7"],
                 store |-> store]
           [] OTHER ->
                [raised |-> FALSE, value |-> [temperature |-> "72"], store |-> store]

(***************************************************************************)
(* AgentOrchestrator._execute_tool                                         *)
(***************************************************************************)
NoInvocation == [tool |-> None, kwargs |-> << >>, raised |-> FALSE, message |-> << >>]

\* variant: user_id is injected only when the model supplied none
InjectUserId_IfMissing(tool_name, arguments, session_user) ==
    IF tool_name \in DOMAIN ALL_TOOLS /\ "user_id" \in ALL_TOOLS[tool_name]
       /\ "user_id" \notin DOMAIN arguments
    THEN [k \in DOMAIN arguments \cup {"user_id"} |->
            IF k = "user_id" THEN session_user ELSE arguments[k]]
    ELSE arguments

\* arguments["user_id"] = self.user_id raises TypeError, outside the try block,
\* when arguments is not a dict
InjectionRaises(tool_name, arguments) ==
    /\ tool_name \in TOOL_FUNCTIONS
    /\ tool_name \in DOMAIN ALL_TOOLS
    /\ "user_id" \in ALL_TOOLS[tool_name]
    /\ ~IsMapping(arguments)

\* arguments after the user_id injection
InjectUserId(tool_name, arguments, session_user) ==
    IF tool_name \in DOMAIN ALL_TOOLS /\ "user_id" \in ALL_TOOLS[tool_name]
    THEN [k \in DOMAIN arguments \cup {"user_id"} |->
            IF k = "user_id" THEN session_user ELSE arguments[k]]
    ELSE arguments

\* variant: the exception message is replaced by a generic text
ToolOutcome_Generic(out) ==
    IF out.raised THEN [error |-> <<"Tool execution failed">>] ELSE out.value

\* try: return func(**arguments) / except Exception as e: return {"error": str(e)}
ToolOutcome(out) == IF out.raised THEN [error |-> out.value] ELSE out.value

\* [result, store, invocation]: invocation records what the callable received and
\* whether it raised (message is str(e))
execute_tool(tool_name, arguments, session_user, store, fault) ==
    IF tool_name \notin TOOL_FUNCTIONS
    THEN [result |-> [error |-> <<"Unknown tool: ", tool_name>>], store |-> store,
          invocation |-> NoInvocation]
    ELSE LET kwargs == IF IsMapping(arguments)
                       THEN InjectUserId(tool_name, arguments, session_user)
                       ELSE arguments
             out == CallTool(tool_name, kwargs, store, fault)
         IN [ result |-> ToolOutcome(out),
              store |-> out.store,
              invocation |-> [tool |-> tool_name, kwargs |-> kwargs, raised |-> out.raised,
                              message |-> IF out.raised THEN out.value ELSE << >>] ]

(***************************************************************************)
(* What the language model may answer                                      *)
(***************************************************************************)
\* (tool name, argument payload) pairs a turn may request
Requests ==
    { [name |-> "update_user_preferences", arguments |-> ArgsMallory],
      [name |-> "get_user_preferences", arguments |-> ArgsMalformed],
      [name |-> "get_weather_for_location", arguments |-> ArgsLocation],
      [name |-> "Weather", arguments |-> ArgsEmpty] }

\* ChatCompletionMessageToolCall objects; ids are unique within a turn
ToolCallObjects(ds) ==
    [i \in 1..Len(ds) |->
        [ id |-> "call_" \o ToString(i - 1), type |-> "function",
          function |-> [name |-> ds[i].name, arguments |-> ds[i].arguments] ]]

ToolCallLists(limit) ==
    { ToolCallObjects(ds) : ds \in UNION { [1..n -> Requests] : n \in 0..limit } }

\* message.content: None, "" or a text
Contents == {NoneText, << >>, <<"hi">>}

\* a completion with an empty choice set
NoChoices == [choices |-> FALSE, content |-> NoneText, tool_calls |-> << >>]

\* completions whose first choice carries at most limit tool requests
Turns(limit) ==
    {NoChoices} \cup
    { [choices |-> TRUE, content |-> c, tool_calls |-> tcs] :
        c \in Contents, tcs \in ToolCallLists(limit) }

\* the completions a recovery or summary turn may receive
FinalTurns == Turns(1)

UserMessages == {<<"hello">>}

(***************************************************************************)
(* Stand-in completions (agents/mock_data.py)                              *)
(***************************************************************************)
\* MOCK_RESPONSES_WITH_TOOLS: the response text and the tool requests of each scenario
MOCK_RESPONSES_WITH_TOOLS ==
    { [ response |-> <<"I found some great activities for you!">>,
        tool_calls |-> << [name |-> "get_user_preferences", arguments |-> ArgsDefaultUser],
                          [name |-> "scrape_activities", arguments |-> ArgsScrapeFun] >> ],
      [ response |-> <<"The weather looks perfect for outdoor activities this weekend!">>,
        tool_calls |-> << [name |-> "get_weather_for_location", arguments |-> ArgsWeatherSF] >> ],
      [ response |-> <<"I've found some wonderful date spots between your two locations!">>,
        tool_calls |-> << [name |-> "search_places_for_dates", arguments |-> ArgsPlaces] >> ],
      [ response |-> <<"I've saved those activities to your spreadsheet!">>,
        tool_calls |-> << [name |-> "save_to_sheets", arguments |-> ArgsSheets] >> ],
      [ response |-> <<"I've updated your preferences!">>,
        tool_calls |-> << [name |-> "update_user_preferences", arguments |-> ArgsNestedPreferences] >> ],
      [ response |-> <<"Based on your preferences and the nice weather forecast, I recommend ...">>,
        tool_calls |-> << [name |-> "get_user_preferences", arguments |-> ArgsDefaultUser],
                          [name |-> "get_weather_for_location", arguments |-> ArgsWeatherSF],
                          [name |-> "scrape_activities", arguments |-> ArgsScrapeConcert] >> ] }

\* self._mock_scenario = {}: what scenario.get("response", "Mock response") and
\* scenario.get("tool_calls", []) read from it
NoScenario == [response |-> <<"Mock response">>, tool_calls |-> << >>]

\* make_mock_completion(tool_calls=..., content=...)
make_mock_completion(mock_tool_calls, mock_content) ==
    [ choices |-> TRUE, content |-> mock_content,
      tool_calls |-> [i \in 1..Len(mock_tool_calls) |->
                        [ id |-> "call_mock_" \o ToString(i - 1), type |-> "function",
                          function |-> [name |-> mock_tool_calls[i].name,
                                        arguments |-> mock_tool_calls[i].arguments] ]] ]

\* the stand-in branch of _get_completion once the counter has been incremented to n
MockCompletion(n, scenario) ==
    IF n = 1 /\ scenario.tool_calls # << >>
    THEN make_mock_completion(scenario.tool_calls, NoneText)
    ELSE make_mock_completion(<< >>, scenario.response)

\* every completion the stand-in branch can build
MockTurns ==
    UNION { {MockCompletion(1, sc), MockCompletion(2, sc)} : sc \in MOCK_RESPONSES_WITH_TOOLS }

(***************************************************************************)
(* State                                                                   *)
(***************************************************************************)
VARIABLES
    ENABLE_OPENROUTER_API,  \* agents.config.ENABLE_OPENROUTER_API, fixed at start-up
    _mock_iteration,        \* self._mock_iteration
    _mock_scenario,         \* self._mock_scenario
    user_id,                \* self.user_id
    conversation_history,   \* self.conversation_history
    prefs,                  \* content of user_preferences.json
    pc,                     \* "idle", "completion", "exec", "returned", "raised"
    purpose,                \* call site of the pending _get_completion
    submissions,            \* submissions of the pending turn request that got HTTP 429
    model,                  \* model argument of the innermost _get_completion frame
    iteration,
    all_tool_results,
    all_skipped_tools,
    skipped_tools,
    content,
    tool_calls,             \* assistant_message["tool_calls"]
    tc_i,                   \* position of the for loop over tool_calls
    skipped_tools_msg,      \* local of process_message, Unbound until assigned
    result,                 \* value returned by process_message
    exc,                    \* exception process_message ended with
    turn_requests,          \* _get_completion calls made by this process_message call
    proposed,               \* tool requests proposed to the main loop in this call
    requested,              \* per loop turn of this call, the tool names the model proposed
    last_invocation,        \* the last tool callable invoked and its keyword arguments
    calls,                  \* process_message calls since construction or the last reset
    http,                   \* the last response of the /chat endpoint
    filter_in,              \* argument of a direct filter_to_available_tools call
    filter_out,             \* its return value
    tasks,                  \* per /chat request, the state of its handler coroutine
    loop_task,              \* the request whose coroutine the event loop is running
    _is_running,            \* services/scraper_scheduler.py: module global
    _scheduler_thread,      \* module global: a Thread object (position in threads), 0 for None
    _scheduler_stop_event,  \* module global: an Event object (position in events), 0 for None
    threads,                \* the Thread objects created so far: loop position and stop_event
    events,                 \* the Event objects created so far: TRUE when set
    callers,                \* per calling thread, its position in start/stop and its last return
    last_true,              \* the last call that returned True: "none", "start" or "stop"
    update_call             \* a direct _update_user_preferences_json call: arguments and outcome

orchestrator == << ENABLE_OPENROUTER_API, _mock_iteration, _mock_scenario, user_id, conversation_history, prefs, pc, purpose, submissions, model, iteration,
           all_tool_results, all_skipped_tools, skipped_tools, content, tool_calls, tc_i,
           skipped_tools_msg, result, exc, turn_requests, proposed, requested,
           last_invocation, calls, http, filter_in, filter_out, tasks, loop_task >>

scheduler == << _is_running, _scheduler_thread, _scheduler_stop_event, threads, events,
                callers, last_true >>

\* what the orchestrator and the /chat endpoint never touch
services == << scheduler, update_call >>

vars == << orchestrator, services >>

\* the state of the server's event loop
chat == << tasks, loop_task >>

callLocals == << iteration, all_tool_results, all_skipped_tools, skipped_tools, content,
                 tool_calls, tc_i, skipped_tools_msg >>

NoResult == [response |-> NoneText, tool_results |-> << >>, skipped_tools_message |-> NoneText]

SYSTEM_PROMPT == <<"You are a helpful assistant that discovers fun activities...">>

\* AgentOrchestrator._build_preferences_context
build_preferences_context(p) ==
    LET location == IF p.location = None \/ p.location = "" THEN "not specified" ELSE p.location
        budget == IF p.budget_min # None /\ p.budget_max # None
                  THEN <<"$", p.budget_min, "-$", p.budget_max>>
                  ELSE IF p.budget_min # None THEN <<"$", p.budget_min, "+">>
                  ELSE IF p.budget_max # None THEN <<"up to $", p.budget_max>>
                  ELSE <<"not specified">>
        interests_str == IF p.interests # << >> THEN Join(", ", p.interests)
                         ELSE <<"not specified">>
    IN <<"Current user preferences:\n- Location: ", location, "\n- Interests: ">>
       \o interests_str \o <<"\n- Budget: ">> \o budget
       \o <<"\n\nUse these preferences to personalize activity recommendations. ",
            "You do not need to call get_user_preferences unless the user asks to change or view their preferences.">>

\* variant: the context is built from default preferences, not the stored ones
FreshHistory_Stale(store, uid) ==
    << [role |-> "system", content |-> SYSTEM_PROMPT],
       [role |-> "system", content |-> build_preferences_context(DefaultPrefs(uid))] >>

\* the history reset_conversation builds
FreshHistory(store, uid) ==
    << [role |-> "system", content |-> SYSTEM_PROMPT],
       [role |-> "system",
        content |-> build_preferences_context(_get_user_preferences_json(store, uid))] >>

NoFilterResult == [filtered |-> << >>, skipped |-> << >>, done |-> FALSE]

\* no response sent yet
NoHttp == [status_code |-> 0, response |-> NoneText, tool_results |-> << >>,
           skipped_tools_message |-> NoneText, detail |-> NoneText]

\* the /chat requests in flight, all with user_id "alice"
ChatRequests == 1..MaxCalls

\* the event loop runs no coroutine
NoTask == 0

\* the calling threads
Callers == 1..MaxCallers

\* a caller that has made no call yet
NoCall == [pc |-> "idle", op |-> "none", pre |-> FALSE, ret |-> "none", created |-> FALSE]

\* module state of services/scraper_scheduler.py after import
InitScheduler ==
    /\ _is_running = FALSE
    /\ _scheduler_thread = 0
    /\ _scheduler_stop_event = 0
    /\ threads = << >>
    /\ events = << >>
    /\ callers = [c \in Callers |-> NoCall]
    /\ last_true = "none"

\* no direct call of the store
NoUpdateCall ==
    [ store |-> << >>, user_id |-> "alice", location |-> None, interests |-> NoneText,
      budget_min |-> None, budget_max |-> None, done |-> FALSE, after |-> << >>,
      returned |-> DefaultPrefs("alice") ]

\* the state after AgentOrchestrator("alice") on an empty preferences file
InitOrchestrator ==
    /\ user_id = "alice"
    /\ tasks = [r \in ChatRequests |-> "queued"]
    /\ loop_task = NoTask
    /\ _mock_iteration = 0
    /\ _mock_scenario = NoScenario
    /\ prefs = << >>
    /\ conversation_history = FreshHistory(<< >>, "alice")
    /\ pc = "idle"
    /\ purpose = "loop"
    /\ submissions = 0
    /\ model = OPENROUTER_DEFAULT_MODEL
    /\ iteration = 0
    /\ all_tool_results = << >>
    /\ all_skipped_tools = << >>
    /\ skipped_tools = << >>
    /\ content = << >>
    /\ tool_calls = << >>
    /\ tc_i = 0
    /\ skipped_tools_msg = Unbound
    /\ result = NoResult
    /\ exc = None
    /\ turn_requests = 0
    /\ proposed = 0
    /\ requested = << >>
    /\ last_invocation = NoInvocation
    /\ calls = 0
    /\ http = NoHttp
    /\ InitScheduler

Init ==
    /\ ENABLE_OPENROUTER_API = TRUE
    /\ InitOrchestrator
    /\ filter_in = << >>
    /\ filter_out = NoFilterResult
    /\ update_call = NoUpdateCall

(***************************************************************************)
(* process_message                                                         *)
(***************************************************************************)
MsgEmptyChoices == <<"I encountered an issue processing your request. Please try again.">>
MsgNoResponse == <<"I couldn't generate a response.">>
MsgTrouble == <<"I'm having trouble processing your request.">>
MsgNoSummary == <<"I found some results but couldn't summarize them.">>
MsgSummaryFailed == <<"I encountered an issue processing your request.">>

\* the corrective system note of the dead-end branch
Hint(skipped) ==
    <<"The tools you requested (">> \o Join(", ", skipped)
    \o <<") are currently unavailable. ",
         "Please provide a helpful response without using those tools, ",
         "based on your general knowledge.">>

\* for tool_name in skipped_tools: append to all_skipped_tools unless present
RECURSIVE Accumulate(_, _)
Accumulate(all_skipped, skipped) ==
    IF skipped = << >> THEN all_skipped
    ELSE Accumulate(AppendIfMissing(all_skipped, Head(skipped)), Tail(skipped))

\* self._build_skipped_tools_message(all) if all else None
AdvisoryOrNone(all_skipped) ==
    IF all_skipped # << >> THEN build_skipped_tools_message(all_skipped) ELSE NoneText

Truthy(text) == text # NoneText /\ text # << >>

\* _get_completion has returned or raised: none of its frames is left
CompletionDone ==
    /\ submissions' = 0
    /\ model' = OPENROUTER_DEFAULT_MODEL

\* return {...}
Return(response, tool_results, skipped_tools_message) ==
    /\ result' = [response |-> response, tool_results |-> tool_results,
                  skipped_tools_message |-> skipped_tools_message]
    /\ pc' = "returned"
    /\ CompletionDone
    /\ UNCHANGED << exc, purpose, turn_requests >>

\* an exception leaves process_message
Raise(e) ==
    /\ exc' = e
    /\ pc' = "raised"
    /\ CompletionDone
    /\ UNCHANGED << result, purpose >>

\* variant: the choice set is never found empty
EmptyChoices_Never(t) == FALSE

\* not response.choices
EmptyChoices(t) == ~t.choices

\* process_message calls self._get_completion(model) from call site site
RequestTurn(site) ==
    /\ pc' = "completion"
    /\ purpose' = site
    /\ submissions' = 0
    /\ model' = OPENROUTER_DEFAULT_MODEL
    /\ turn_requests' = turn_requests + 1
    /\ UNCHANGED << result, exc >>

\* variant: the message is appended with the wrong role
UserMessage_System(message) == [role |-> "system", content |-> message]

\* {"role": "user", "content": message}
UserMessage(message) == [role |-> "user", content |-> message]

\* variant: the new message takes the place of the last one
AppendMessage_Overwrite(history, message) ==
    IF Len(history) > 2 THEN [history EXCEPT ![Len(history)] = message]
    ELSE Append(history, message)

\* self.conversation_history.append(message)
AppendMessage(history, message) == Append(history, message)

\* variant: the counter of the previous call is kept
ResetMockIteration_Keep(n) == n

\* self._mock_iteration = 0
ResetMockIteration(n) == 0

\* _get_completion returns t: built by the stand-in branch when the API is disabled,
\* received from the transport otherwise
GetCompletion(t) ==
    IF ~ENABLE_OPENROUTER_API
    THEN /\ _mock_iteration' = _mock_iteration + 1
         /\ t = MockCompletion(_mock_iteration + 1, _mock_scenario)
    ELSE UNCHANGED _mock_iteration

\* entry of process_message up to the first _get_completion call
EnterProcessMessage(message) ==
    /\ _mock_iteration' = ResetMockIteration(_mock_iteration)
    /\ _mock_scenario' \in IF ~ENABLE_OPENROUTER_API THEN MOCK_RESPONSES_WITH_TOOLS
                           ELSE {_mock_scenario}
    /\ conversation_history' = AppendMessage(conversation_history, UserMessage(message))
    /\ calls' = calls + 1
    /\ iteration' = 1
    /\ all_tool_results' = << >>
    /\ all_skipped_tools' = << >>
    /\ skipped_tools' = << >>
    /\ content' = << >>
    /\ tool_calls' = << >>
    /\ tc_i' = 0
    /\ skipped_tools_msg' = Unbound
    /\ result' = NoResult
    /\ exc' = None
    /\ pc' = "completion"
    /\ purpose' = "loop"
    /\ submissions' = 0
    /\ model' = OPENROUTER_DEFAULT_MODEL
    /\ turn_requests' = 1
    /\ requested' = << >>
    /\ proposed' = 0
    /\ UNCHANGED << user_id, services, ENABLE_OPENROUTER_API, prefs, last_invocation, http, filter_in, filter_out >>

\* process_message called while no other call is in progress
ProcessMessage(message) ==
    /\ pc = "idle"
    /\ EnterProcessMessage(message)
    /\ UNCHANGED chat

\* _get_completion: the transport answers HTTP 429; the except branch calls
\* _get_completion(OPENROUTER_BACKUP_MODEL) from inside the handler
RetryAfterRateLimit(count) == count + 1

CompletionRateLimited ==
    /\ ENABLE_OPENROUTER_API
    /\ pc = "completion"
    /\ IF submissions + 1 < RecursionLimit
       THEN /\ submissions' = RetryAfterRateLimit(submissions)
            /\ model' = OPENROUTER_BACKUP_MODEL
            /\ UNCHANGED << pc, purpose, result, exc, turn_requests >>
       ELSE /\ Raise("RecursionError")
            /\ UNCHANGED turn_requests
    /\ UNCHANGED << user_id, services, chat, ENABLE_OPENROUTER_API, _mock_iteration, _mock_scenario, conversation_history, prefs, callLocals, proposed,
                    requested, last_invocation, calls, http, filter_in, filter_out >>

\* _get_completion: the transport fails with an error that is not HTTP 429
CompletionFails ==
    /\ ENABLE_OPENROUTER_API
    /\ pc = "completion"
    /\ Raise("APIError")
    /\ UNCHANGED << user_id, services, chat, ENABLE_OPENROUTER_API, _mock_iteration, _mock_scenario, conversation_history, prefs, callLocals, proposed,
                    requested, last_invocation, turn_requests,
                    calls, http, filter_in, filter_out >>

\* variant: a turn with text is never executed
HasToolsToExecute_UnlessText(assistant_message) ==
    /\ "tool_calls" \in DOMAIN assistant_message
    /\ assistant_message.tool_calls # << >>
    /\ assistant_message.content = << >>

\* "tool_calls" in assistant_message and assistant_message["tool_calls"]
HasToolsToExecute(assistant_message) ==
    "tool_calls" \in DOMAIN assistant_message /\ assistant_message.tool_calls # << >>

\* variant: the dead end is never detected
DeadEnd_Never(skipped, text) == FALSE

\* if skipped_tools and not content
DeadEnd(skipped, text) == skipped # << >> /\ text = << >>

\* one pass of the while loop from the completion to the tool loop or a return
LoopTurn(t) ==
    /\ pc = "completion"
    /\ purpose = "loop"
    /\ GetCompletion(t)
    /\ Len(t.tool_calls) <= MaxRequests - proposed
    /\ proposed' = proposed + Len(t.tool_calls)
    /\ requested' = IF ~EmptyChoices(t)
                    THEN Append(requested, [i \in 1..Len(t.tool_calls) |-> t.tool_calls[i].function.name])
                    ELSE requested
    /\ UNCHANGED << user_id, services, chat, ENABLE_OPENROUTER_API, _mock_scenario, prefs, last_invocation, iteration, all_tool_results,
                    calls, http, filter_in, filter_out >>
    /\ IF EmptyChoices(t)
       THEN /\ Return(MsgEmptyChoices, all_tool_results, NoneText)
            /\ UNCHANGED << conversation_history, all_skipped_tools, skipped_tools, content,
                            tool_calls, tc_i, skipped_tools_msg >>
       ELSE LET c == OrText(t.content, << >>)
                f == IF t.tool_calls # << >> THEN filter_to_available_tools(t.tool_calls)
                     ELSE [filtered |-> << >>, skipped |-> << >>]
                assistant_message ==
                    IF f.filtered # << >>
                    THEN [role |-> "assistant", content |-> c, tool_calls |-> f.filtered]
                    ELSE [role |-> "assistant", content |-> c]
                all == Accumulate(all_skipped_tools, f.skipped)
            IN  /\ content' = c
                /\ skipped_tools' = f.skipped
                /\ all_skipped_tools' = all
                /\ tool_calls' = f.filtered
                /\ IF HasToolsToExecute(assistant_message)
                   THEN \* tools to execute
                        /\ conversation_history' = AppendMessage(conversation_history, assistant_message)
                        /\ pc' = "exec"
                        /\ tc_i' = 1
                        /\ CompletionDone
                        /\ UNCHANGED << skipped_tools_msg, result, exc, purpose, turn_requests >>
                   ELSE IF DeadEnd(f.skipped, c)
                   THEN \* all tools were skipped and the turn has no content
                        /\ conversation_history' =
                             AppendMessage(AppendMessage(conversation_history, assistant_message),
                                    [role |-> "system", content |-> Hint(f.skipped)])
                        /\ RequestTurn("fallback")
                        /\ UNCHANGED << tc_i, skipped_tools_msg >>
                   ELSE \* final response: reads skipped_tools_msg
                        /\ conversation_history' = AppendMessage(conversation_history, assistant_message)
                        /\ UNCHANGED << tc_i, skipped_tools_msg >>
                        /\ IF skipped_tools_msg = Unbound
                           THEN /\ Raise("UnboundLocalError")
                                /\ UNCHANGED turn_requests
                           ELSE Return(OrText(Strip(IF Truthy(skipped_tools_msg)
                                                    THEN c \o <<" ">> \o skipped_tools_msg
                                                    ELSE c),
                                              MsgNoResponse),
                                       all_tool_results, AdvisoryOrNone(all))

\* variant: every tool-result message refers to the first request of a turn
ToolMessage_FirstId(tool_call, outcome) ==
    [role |-> "tool", tool_call_id |-> "call_0", content |-> Dumps(outcome)]

\* the tool-result message appended for a request
ToolMessage(tool_call, outcome) ==
    [role |-> "tool", tool_call_id |-> tool_call.id, content |-> Dumps(outcome)]

\* variant: the loop test never fails
LoopContinues_Always(i) == TRUE

\* while iteration < max_iterations
LoopContinues(i) == i < max_iterations

\* one pass of the for loop over assistant_message["tool_calls"], and the
\* while test and next _get_completion call after the last pass
ExecuteTool(fault) ==
    /\ pc = "exec"
    /\ LET tool_call == tool_calls[tc_i]
           tool_name == tool_call.function.name
           arguments == DecodeArguments(tool_call.function.arguments)
           out == execute_tool(tool_name, arguments, user_id, prefs, fault)
       IN  IF InjectionRaises(tool_name, arguments)
           THEN \* the TypeError leaves _execute_tool and process_message
                /\ Raise("TypeError")
                /\ UNCHANGED << all_tool_results, conversation_history, prefs, last_invocation,
                                tc_i, iteration, turn_requests >>
           ELSE /\ all_tool_results' = Append(all_tool_results, [tool |-> tool_name, result |-> out.result])
                /\ conversation_history' =
                     AppendMessage(conversation_history, ToolMessage(tool_call, out.result))
                /\ prefs' = out.store
                /\ last_invocation' = out.invocation
                /\ IF tc_i < Len(tool_calls)
                   THEN /\ tc_i' = tc_i + 1
                        /\ UNCHANGED << pc, purpose, submissions, model, turn_requests, iteration,
                                        result, exc >>
                   ELSE /\ UNCHANGED tc_i
                        /\ IF LoopContinues(iteration)
                           THEN /\ iteration' = iteration + 1
                                /\ RequestTurn("loop")
                           ELSE /\ UNCHANGED iteration
                                /\ RequestTurn("summary")
    /\ UNCHANGED << user_id, services, chat, ENABLE_OPENROUTER_API, _mock_iteration, _mock_scenario,
                    all_skipped_tools, skipped_tools, content, tool_calls,
                    skipped_tools_msg, proposed, requested, calls, http, filter_in, filter_out >>

\* the completion of the dead-end branch, up to its return
FallbackTurn(t) ==
    /\ pc = "completion"
    /\ purpose = "fallback"
    /\ GetCompletion(t)
    /\ LET fallback_content == IF EmptyChoices(t) THEN MsgTrouble ELSE OrText(t.content, << >>)
           msg == build_skipped_tools_message(all_skipped_tools)
           annotated == IF Truthy(msg)
                        THEN fallback_content \o <<"\n\n", "(Note:">> \o msg \o <<")">>
                        ELSE fallback_content
       IN  /\ conversation_history' =
                AppendMessage(conversation_history, [role |-> "assistant", content |-> fallback_content])
           /\ skipped_tools_msg' = msg
           /\ Return(OrText(Strip(annotated), MsgNoResponse), all_tool_results, msg)
    /\ UNCHANGED << user_id, services, chat, ENABLE_OPENROUTER_API, _mock_scenario, prefs, proposed, requested, last_invocation, iteration,
                    all_tool_results, all_skipped_tools, skipped_tools, content, tool_calls, tc_i,
                    calls, http, filter_in, filter_out >>

\* the completion after the while loop, up to the return
SummaryTurn(t) ==
    /\ pc = "completion"
    /\ purpose = "summary"
    /\ GetCompletion(t)
    /\ IF ~EmptyChoices(t)
       THEN LET summary_content == OrText(t.content, << >>)
            IN  /\ conversation_history' =
                     AppendMessage(conversation_history,
                            [role |-> "assistant", content |-> summary_content])
                /\ Return(OrText(summary_content, MsgNoSummary), all_tool_results,
                          AdvisoryOrNone(all_skipped_tools))
       ELSE /\ UNCHANGED conversation_history
            /\ Return(MsgSummaryFailed, all_tool_results, AdvisoryOrNone(all_skipped_tools))
    /\ UNCHANGED << user_id, services, chat, ENABLE_OPENROUTER_API, _mock_scenario, prefs, proposed, requested, last_invocation, callLocals,
                    calls, http, filter_in, filter_out >>

\* requests the next loop turn may still propose
LoopLimit == IF MaxRequests - proposed < MaxToolCalls THEN MaxRequests - proposed ELSE MaxToolCalls

Next ==
    \/ \E m \in UserMessages : ProcessMessage(m)
    \/ CompletionRateLimited
    \/ CompletionFails
    \/ \E t \in Turns(LoopLimit) : LoopTurn(t)
    \/ \E fault \in ToolFaults : ExecuteTool(fault)
    \/ \E t \in FinalTurns : FallbackTurn(t)
    \/ \E t \in FinalTurns : SummaryTurn(t)

Spec == Init /\ [][Next]_vars

(***************************************************************************)
(* filter_to_available_tools called on its own                             *)
(***************************************************************************)
\* length of the request lists handed to the filter
MaxFilterLen == 3

InitFilter ==
    /\ ENABLE_OPENROUTER_API = TRUE
    /\ InitOrchestrator
    /\ filter_in \in ToolCallLists(MaxFilterLen)
    /\ filter_out = NoFilterResult
    /\ update_call = NoUpdateCall

ApplyFilter ==
    /\ ~filter_out.done
    /\ LET f == filter_to_available_tools(filter_in)
       IN filter_out' = [filtered |-> f.filtered, skipped |-> f.skipped, done |-> TRUE]
    /\ UNCHANGED << user_id, services, chat, ENABLE_OPENROUTER_API, _mock_iteration, _mock_scenario, conversation_history, prefs, pc, purpose, submissions, model,
                    callLocals, result, exc, turn_requests, proposed, requested,
                    last_invocation, calls, http, filter_in >>

NextFilter == ApplyFilter

SpecFilter == InitFilter /\ [][NextFilter]_vars

(***************************************************************************)
(* A session: the /chat endpoint (api/routes.py) calling process_message   *)
(* on the user's orchestrator several times, and reset_conversation        *)
(***************************************************************************)
\* the message of the k-th call
SessionMessage(k) == <<"message ", ToString(k)>>

\* what the model answers in a session: at most one request per turn
SessionRequests ==
    { [name |-> "update_user_preferences", arguments |-> ArgsMallory],
      [name |-> "Weather", arguments |-> ArgsEmpty] }

\* no choices, a text or nothing without requests, or one request without text
SessionTurns ==
    {NoChoices}
    \cup { [choices |-> TRUE, content |-> c, tool_calls |-> << >>] : c \in {NoneText, <<"hi">>} }
    \cup { [choices |-> TRUE, content |-> NoneText, tool_calls |-> ToolCallObjects(<<r>>)] :
             r \in SessionRequests }

\* str(e) of the exceptions process_message ends with
ExceptionText(e) ==
    CASE e = "UnboundLocalError" ->
            <<"cannot access local variable 'skipped_tools_msg' where it is not associated with a value">>
      [] e = "RecursionError" -> <<"maximum recursion depth exceeded">>
      [] e = "TypeError" -> <<"object does not support item assignment">>
      [] OTHER -> <<"Connection error.">>

\* chat_endpoint: agent.process_message(chat_message.message)
ChatEndpointCalls ==
    /\ calls < MaxCalls
    /\ ProcessMessage(SessionMessage(calls + 1))

\* detail=str(e)
ErrorDetail(e) == ExceptionText(e)

\* chat_endpoint after process_message: ChatResponse(...) or HTTPException(500)
Respond ==
    /\ pc \in {"returned", "raised"}
    /\ pc' = "idle"
    /\ http' = IF pc = "returned"
               THEN [status_code |-> 200,
                     response |-> OrText(result.response, MsgNoResponse),
                     tool_results |-> result.tool_results,
                     skipped_tools_message |-> result.skipped_tools_message,
                     detail |-> NoneText]
               ELSE [status_code |-> 500, response |-> NoneText, tool_results |-> << >>,
                     skipped_tools_message |-> NoneText, detail |-> ErrorDetail(exc)]
    /\ UNCHANGED << user_id, services, ENABLE_OPENROUTER_API, _mock_iteration, _mock_scenario,
                    conversation_history, prefs, purpose, submissions, model,
                    callLocals, result, exc, turn_requests, proposed, requested,
                    last_invocation, calls, filter_in, filter_out >>

\* the response of a handler called while no other request is in flight
ChatEndpointResponds ==
    /\ Respond
    /\ UNCHANGED chat

\* AgentOrchestrator.reset_conversation, called between two process_message calls
ResetConversation ==
    /\ pc = "idle"
    /\ conversation_history' = FreshHistory(prefs, user_id)
    /\ calls' = 0
    /\ UNCHANGED << user_id, services, chat, ENABLE_OPENROUTER_API, _mock_iteration, _mock_scenario, prefs, pc, purpose, submissions, model, callLocals, result, exc,
                    turn_requests, proposed, requested, last_invocation, http,
                    filter_in, filter_out >>

NextSession ==
    \/ ChatEndpointCalls
    \/ ChatEndpointResponds
    \/ ResetConversation
    \/ CompletionFails
    \/ \E t \in SessionTurns : LoopTurn(t)
    \/ ExecuteTool("ok")
    \/ \E t \in SessionTurns : FallbackTurn(t)
    \/ \E t \in SessionTurns : SummaryTurn(t)

SpecSession == Init /\ [][NextSession]_vars

(***************************************************************************)
(* Stand-in mode: the same session with the OpenRouter API disabled        *)
(***************************************************************************)
InitMock ==
    /\ ENABLE_OPENROUTER_API = FALSE
    /\ InitOrchestrator
    /\ filter_in = << >>
    /\ filter_out = NoFilterResult
    /\ update_call = NoUpdateCall

NextMock ==
    \/ ChatEndpointCalls
    \/ ChatEndpointResponds
    \/ \E t \in MockTurns : LoopTurn(t)
    \/ \E fault \in ToolFaults : ExecuteTool(fault)
    \/ \E t \in MockTurns : FallbackTurn(t)

SpecMock == InitMock /\ [][NextMock]_vars

(***************************************************************************)
(* Several /chat requests for one user in flight in one server process:    *)
(* uvicorn's event loop runs the chat_endpoint coroutines (api/routes.py)  *)
(***************************************************************************)
InitChat ==
    /\ ENABLE_OPENROUTER_API \in BOOLEAN
    /\ InitOrchestrator
    /\ filter_in = << >>
    /\ filter_out = NoFilterResult
    /\ update_call = NoUpdateCall

\* variant: the handler awaits the completion
HandlerYields_AtCompletion(at) == at = "completion"

\* the points where the chat_endpoint coroutine hands control back to the event
\* loop: its body and process_message contain no await
HandlerYields(at) == FALSE

\* the event loop may start another coroutine: none is running, or the running
\* one is suspended at an await
EventLoopFree == loop_task = NoTask \/ HandlerYields(pc)

\* the event loop starts the coroutine of request r, which runs chat_endpoint up to
\* the first _get_completion call of agent.process_message(chat_message.message)
HandlerStarts(r) ==
    /\ tasks[r] = "queued"
    /\ EventLoopFree
    /\ EnterProcessMessage(SessionMessage(r))
    /\ tasks' = [tasks EXCEPT ![r] = "running"]
    /\ loop_task' = r

\* the running coroutine returns its response or raises HTTPException
HandlerResponds ==
    /\ loop_task # NoTask
    /\ Respond
    /\ tasks' = [tasks EXCEPT ![loop_task] = "responded"]
    /\ loop_task' = NoTask

\* the completions of the server's mode
ChatTurns == IF ENABLE_OPENROUTER_API THEN SessionTurns ELSE MockTurns

NextChat ==
    \/ \E r \in ChatRequests : HandlerStarts(r)
    \/ HandlerResponds
    \/ CompletionFails
    \/ \E t \in ChatTurns : LoopTurn(t)
    \/ ExecuteTool("ok")
    \/ \E t \in ChatTurns : FallbackTurn(t)
    \/ \E t \in ChatTurns : SummaryTurn(t)

SpecChat == InitChat /\ [][NextChat]_vars

(***************************************************************************)
(* Argument payloads: one process_message call in which the model requests *)
(* allow-listed tools with payloads of every JSON kind                     *)
(***************************************************************************)
\* the payload strings of a request
Payloads == {ArgsEmpty, ArgsMalformed, ArgsNull, ArgsList, ArgsNumber, ArgsString}

\* a tool whose declaration requires user_id, and one whose declaration does not
PayloadRequests ==
    { [name |-> n, arguments |-> a] : n \in {"get_user_preferences", "save_to_sheets"},
                                      a \in Payloads }

\* a text without requests, or one request without text
PayloadTurns ==
    { [choices |-> TRUE, content |-> <<"hi">>, tool_calls |-> << >>] }
    \cup { [choices |-> TRUE, content |-> NoneText, tool_calls |-> ToolCallObjects(<<r>>)] :
             r \in PayloadRequests }

NextPayloads ==
    \/ \E m \in UserMessages : ProcessMessage(m)
    \/ \E t \in PayloadTurns : LoopTurn(t)
    \/ ExecuteTool("ok")
    \/ \E t \in PayloadTurns : SummaryTurn(t)

SpecPayloads == Init /\ [][NextPayloads]_vars

(***************************************************************************)
(* _update_user_preferences_json called on its own                         *)
(***************************************************************************)
\* a record a user has stored before
StoredRecord(uid) ==
    [user_id |-> uid, location |-> "NYC", interests |-> <<"art">>,
     budget_min |-> "10", budget_max |-> "50"]

\* contents of user_preferences.json: some users with a default or a filled record
Stores ==
    UNION { [us -> {"default", "filled"}] : us \in SUBSET Users }

StoreOf(shape) ==
    [u \in DOMAIN shape |-> IF shape[u] = "filled" THEN StoredRecord(u) ELSE DefaultPrefs(u)]

InitPrefs ==
    /\ ENABLE_OPENROUTER_API = TRUE
    /\ InitOrchestrator
    /\ filter_in = << >>
    /\ filter_out = NoFilterResult
    /\ \E shape \in Stores, uid \in Users, location \in {None, "", "LIC"},
          interests \in {NoneText, << >>, <<"music">>},
          budget_min \in {None, "5"}, budget_max \in {None, "30"} :
            update_call = [ store |-> StoreOf(shape), user_id |-> uid, location |-> location,
                            interests |-> interests, budget_min |-> budget_min,
                            budget_max |-> budget_max, done |-> FALSE, after |-> << >>,
                            returned |-> DefaultPrefs(uid) ]

\* update_user_preferences(user_id, location, interests, budget_min, budget_max) with
\* the JSON backend: the file afterwards and the returned record
UpdateUserPreferences ==
    /\ ~update_call.done
    /\ LET after == _update_user_preferences_json(update_call.store, update_call.user_id,
                        update_call.location, update_call.interests,
                        update_call.budget_min, update_call.budget_max)
       IN update_call' = [update_call EXCEPT !.done = TRUE, !.after = after,
                                             !.returned = after[update_call.user_id]]
    /\ UNCHANGED << orchestrator, scheduler >>

NextPrefs == UpdateUserPreferences

SpecPrefs == InitPrefs /\ [][NextPrefs]_vars

(***************************************************************************)
(* The scraper scheduler (services/scraper_scheduler.py): the calls of     *)
(* start_scraper_scheduler and stop_scraper_scheduler, and the loop threads *)
(***************************************************************************)
\* is_scheduler_running()
is_scheduler_running == _is_running

\* the Thread objects whose _scraper_loop has started and not returned
Alive == { t \in 1..Len(threads) : threads[t].state \in {"scraping", "waiting"} }

\* the call of caller c ends: return value, or "raised"
Returns(c, value) ==
    callers' = [callers EXCEPT ![c].pc = "idle", ![c].ret = value]

\* caller c moves on inside its call
Goto(c, label) ==
    callers' = [callers EXCEPT ![c].pc = label]

\* variant: start does not look at the flag
AlreadyRunning_Never(flag) == FALSE

\* if _is_running: return False
AlreadyRunning(flag) == flag

\* start_scraper_scheduler, line 58
StartChecks(c) ==
    /\ callers[c].pc = "idle"
    /\ AlreadyRunning(_is_running)
         \/ Len(threads) + Cardinality({d \in Callers : callers[d].pc = "start_create"}) < MaxThreads
    /\ callers' = [callers EXCEPT ![c] =
                     IF AlreadyRunning(_is_running)
                     THEN [pc |-> "idle", op |-> "start", pre |-> _is_running, ret |-> "False",
                           created |-> FALSE]
                     ELSE [pc |-> "start_create", op |-> "start", pre |-> _is_running,
                           ret |-> "none", created |-> FALSE]]
    /\ UNCHANGED << orchestrator, update_call, _is_running, _scheduler_thread,
                    _scheduler_stop_event, threads, events, last_true >>

\* lines 64-70: the Event and the Thread are created and bound to the globals
StartCreates(c) ==
    /\ callers[c].pc = "start_create"
    /\ events' = Append(events, FALSE)
    /\ threads' = Append(threads, [state |-> "created", stop_event |-> Len(events) + 1])
    /\ _scheduler_stop_event' = Len(events) + 1
    /\ _scheduler_thread' = Len(threads) + 1
    /\ callers' = [callers EXCEPT ![c].pc = "start_thread", ![c].created = TRUE]
    /\ UNCHANGED << orchestrator, update_call, _is_running, last_true >>

\* lines 71-75: _scheduler_thread.start(), _is_running = True, return True
StartThread(c) ==
    /\ callers[c].pc = "start_thread"
    /\ IF _scheduler_thread = 0 \/ threads[_scheduler_thread].state # "created"
       THEN \* AttributeError on None, or RuntimeError: threads can only be started once
            /\ Returns(c, "raised")
            /\ UNCHANGED << _is_running, threads, last_true >>
       ELSE /\ threads' = [threads EXCEPT ![_scheduler_thread].state = "scraping"]
            /\ _is_running' = TRUE
            /\ last_true' = "start"
            /\ Returns(c, "True")
    /\ UNCHANGED << orchestrator, update_call, _scheduler_thread, _scheduler_stop_event, events >>

\* stop_scraper_scheduler, line 90
StopChecks(c) ==
    /\ callers[c].pc = "idle"
    /\ callers' = [callers EXCEPT ![c] =
                     IF ~_is_running \/ _scheduler_stop_event = 0
                     THEN [pc |-> "idle", op |-> "stop", pre |-> _is_running, ret |-> "False",
                           created |-> FALSE]
                     ELSE [pc |-> "stop_set", op |-> "stop", pre |-> _is_running,
                           ret |-> "none", created |-> FALSE]]
    /\ UNCHANGED << orchestrator, update_call, _is_running, _scheduler_thread,
                    _scheduler_stop_event, threads, events, last_true >>

\* line 95: _scheduler_stop_event.set()
StopSets(c) ==
    /\ callers[c].pc = "stop_set"
    /\ IF _scheduler_stop_event = 0
       THEN \* AttributeError on None
            /\ Returns(c, "raised")
            /\ UNCHANGED events
       ELSE /\ events' = [events EXCEPT ![_scheduler_stop_event] = TRUE]
            /\ Goto(c, "stop_join")
    /\ UNCHANGED << orchestrator, update_call, _is_running, _scheduler_thread,
                    _scheduler_stop_event, threads, last_true >>

\* _scheduler_thread.join(timeout=timeout) returns: the thread has ended, or the
\* time is up while run_scrape_job is still running
JoinReturns(state) == state \in {"exited", "scraping"}

\* lines 97-100: the join, and the warning when the thread is still alive
StopJoins(c) ==
    /\ callers[c].pc = "stop_join"
    /\ IF _scheduler_thread = 0
       THEN Goto(c, "stop_clear")
       ELSE IF threads[_scheduler_thread].state = "created"
       THEN \* RuntimeError: cannot join thread before it is started
            Returns(c, "raised")
       ELSE /\ JoinReturns(threads[_scheduler_thread].state)
            /\ Goto(c, "stop_clear")
    /\ UNCHANGED << orchestrator, update_call, _is_running, _scheduler_thread,
                    _scheduler_stop_event, threads, events, last_true >>

\* lines 102-107: the globals are cleared, return True
StopClears(c) ==
    /\ callers[c].pc = "stop_clear"
    /\ _scheduler_thread' = 0
    /\ _scheduler_stop_event' = 0
    /\ _is_running' = FALSE
    /\ last_true' = "stop"
    /\ Returns(c, "True")
    /\ UNCHANGED << orchestrator, update_call, threads, events >>

\* _scraper_loop: run_scrape_job returns or raises, then the while test (line 29)
ScrapeJobEnds(t) ==
    /\ threads[t].state = "scraping"
    /\ threads' = [threads EXCEPT ![t].state =
                     IF events[threads[t].stop_event] THEN "exited" ELSE "waiting"]
    /\ UNCHANGED << orchestrator, update_call, _is_running, _scheduler_thread,
                    _scheduler_stop_event, events, callers, last_true >>

\* _scraper_loop: stop_event.wait(timeout=interval) returns (lines 31-38)
WaitReturns(t) ==
    /\ threads[t].state = "waiting"
    /\ threads' = [threads EXCEPT ![t].state =
                     IF events[threads[t].stop_event] THEN "exited" ELSE "scraping"]
    /\ UNCHANGED << orchestrator, update_call, _is_running, _scheduler_thread,
                    _scheduler_stop_event, events, callers, last_true >>

\* the calls made one after the other by one caller
NextScheduler ==
    \/ StartChecks(1)
    \/ StartCreates(1)
    \/ StartThread(1)
    \/ StopChecks(1)
    \/ StopSets(1)
    \/ StopJoins(1)
    \/ StopClears(1)
    \/ \E t \in 1..Len(threads) : ScrapeJobEnds(t)
    \/ \E t \in 1..Len(threads) : WaitReturns(t)

SpecScheduler == Init /\ [][NextScheduler]_vars

\* the calls made by several threads at the same time
NextSchedulerConcurrent ==
    \/ \E c \in Callers : StartChecks(c)
    \/ \E c \in Callers : StartCreates(c)
    \/ \E c \in Callers : StartThread(c)
    \/ \E c \in Callers : StopChecks(c)
    \/ \E c \in Callers : StopSets(c)
    \/ \E c \in Callers : StopJoins(c)
    \/ \E c \in Callers : StopClears(c)
    \/ \E t \in 1..Len(threads) : ScrapeJobEnds(t)
    \/ \E t \in 1..Len(threads) : WaitReturns(t)

SpecSchedulerConcurrent == Init /\ [][NextSchedulerConcurrent]_vars

(***************************************************************************)
(* Properties                                                              *)
(***************************************************************************)
Range(list) == { list[i] : i \in 1..Len(list) }

\* no request of the turn is on the allow-list
NoExecutable(t) ==
    \A i \in 1..Len(t.tool_calls) : t.tool_calls[i].function.name \notin ALLOWLISTED_TOOLS

\* the loop turn t is one the terminal success path is specified for
TerminalTurn(t) ==
    /\ t.choices
    /\ NoExecutable(t)
    /\ (Truthy(t.content) \/ t.tool_calls = << >>)

\* C1: a loop turn without executable requests that carries text, or that
\* proposed no request at all, makes process_message return that turn's text
\* with the advisory built from every tool denied in the call.
C1_TerminalTurnReturnsText ==
    [][ \A t \in Turns(LoopLimit) :
          (LoopTurn(t) /\ TerminalTurn(t)) =>
             /\ pc' = "returned"
             /\ result'.response = OrText(t.content, MsgNoResponse)
             /\ result'.skipped_tools_message = AdvisoryOrNone(all_skipped_tools') ]_vars

\* C2: every executed tool, on every path, is on the allow-list.
C2_OnlyAllowlistedExecuted ==
    /\ \A i \in 1..Len(all_tool_results) : all_tool_results[i].tool \in ALLOWLISTED_TOOLS
    /\ \A i \in 1..Len(result.tool_results) : result.tool_results[i].tool \in ALLOWLISTED_TOOLS
    /\ last_invocation.tool \in ALLOWLISTED_TOOLS \cup {None}

\* a call that executed a tool, then hit a dead end of denied tools, and returned
C2_Witness ==
    /\ pc = "returned"
    /\ purpose = "fallback"
    /\ result.tool_results # << >>
    /\ result.skipped_tools_message # NoneText

\* C3: a callable whose schema requires user_id receives the session's
\* user_id whatever the model supplied; an update requested for another user
\* lands in the session user's record and no other record is written.
C3_SessionIdentityUsed ==
    /\ (last_invocation.tool # None /\ "user_id" \in ALL_TOOLS[last_invocation.tool])
          => last_invocation.kwargs.user_id = user_id
    /\ \A u \in DOMAIN prefs : u = user_id
    /\ (last_invocation.tool = "update_user_preferences" /\ ~last_invocation.raised)
          => (user_id \in DOMAIN prefs /\ prefs[user_id].budget_max = "30")

\* update_user_preferences was requested for "mallory" and applied to "alice"
C3_Witness ==
    /\ last_invocation.tool = "update_user_preferences"
    /\ ~last_invocation.raised
    /\ \E i \in 1..Len(tool_calls) :
          /\ tool_calls[i].function.name = "update_user_preferences"
          /\ JsonLoads(tool_calls[i].function.arguments).value.user_id = "mallory"
    /\ user_id = "alice"
    /\ prefs["alice"].budget_max = "30"
    /\ "mallory" \notin DOMAIN prefs

\* C4: one call makes at most 3 loop turn requests and at most one further
\* turn request, hence at most 4 (rate-limit retries not counted).
C4_AtMostFourTurnRequests ==
    /\ iteration <= 3
    /\ turn_requests <= iteration + 1
    /\ turn_requests <= 4

\* a call that used the three loop turns and the summary turn
C4_Witness ==
    /\ pc = "returned"
    /\ turn_requests = 4
    /\ purpose = "summary"

\* C5: a turn request is retried once after HTTP 429; a second HTTP 429 is
\* raised to the caller, so no third submission is made.
C5_RetriesOnce ==
    pc = "completion" => submissions <= 1

\* C6: a tool callable that raises yields {"error": <message>} as an ordinary
\* tool-result message; the remaining requests of the turn still run, after
\* the last one another turn is requested, and process_message does not raise.
C6_ToolFaultBecomesErrorResult ==
    [][ (pc = "exec" /\ last_invocation'.raised) =>
          LET tool_call == tool_calls[tc_i]
              outcome == [error |-> last_invocation'.message]
          IN /\ all_tool_results' =
                   Append(all_tool_results, [tool |-> tool_call.function.name, result |-> outcome])
             /\ conversation_history' =
                   Append(conversation_history,
                          [role |-> "tool", tool_call_id |-> tool_call.id,
                           content |-> <<"{\"error\": ">> \o last_invocation'.message \o <<"}">>])
             /\ pc' # "raised"
             /\ IF tc_i < Len(tool_calls)
                THEN pc' = "exec" /\ tc_i' = tc_i + 1
                ELSE pc' = "completion" /\ turn_requests' = turn_requests + 1 ]_vars

\* the first request of a turn raised, the second one ran, and the next turn
\* has been requested
C6_Witness ==
    /\ pc = "completion"
    /\ Len(tool_calls) = 2
    /\ tc_i = 2
    /\ Len(all_tool_results) >= 2
    /\ "error" \in DOMAIN all_tool_results[Len(all_tool_results) - 1].result
    /\ all_tool_results[Len(all_tool_results) - 1].result.error = FaultMessage
    /\ "error" \notin DOMAIN all_tool_results[Len(all_tool_results)].result

\* display names of the tools the last loop turn proposed and the filter denies
DeniedInLastTurn ==
    { DisplayName(requested[Len(requested)][i]) :
        i \in { j \in 1..Len(requested[Len(requested)]) :
                  requested[Len(requested)][j] \notin ALLOWLISTED_TOOLS } }

\* C7 as stated: after a dead end the response is the recovery turn's text,
\* or a generic fallback when that turn has none; it is never empty and the
\* advisory is not None.
C7_RecoveryTextReturned ==
    [][ \A t \in FinalTurns :
          FallbackTurn(t) =>
             /\ result'.response # << >>
             /\ result'.skipped_tools_message # NoneText
             /\ result'.response =
                   (IF t.choices /\ Truthy(t.content) THEN t.content
                    ELSE IF t.choices THEN MsgNoResponse ELSE MsgTrouble) ]_vars

\* C7 as amended: after a dead end the response is never empty: it is the
\* recovery turn's text (the fixed sentence MsgTrouble when the completion has
\* no choices, nothing when its content is empty) followed by a note that
\* quotes the advisory; the advisory is not None and names every tool denied
\* in the dead-end turn.
C7_RecoveryNeverEmpty ==
    [][ (pc = "completion" /\ purpose = "fallback") => \A t \in FinalTurns :
          FallbackTurn(t) =>
             LET text == IF ~t.choices THEN MsgTrouble
                         ELSE IF Truthy(t.content) THEN t.content ELSE << >>
                 advisory == result'.skipped_tools_message
             IN /\ pc' = "returned"
                /\ result'.response # << >>
                /\ advisory # NoneText
                /\ \A d \in DeniedInLastTurn : Contains(advisory, d)
                /\ DeniedInLastTurn # {}
                /\ result'.response =
                      (IF text = << >> THEN <<"(Note:">> \o advisory \o <<")">>
                       ELSE text \o <<"\n\n", "(Note:">> \o advisory \o <<")">>) ]_vars

\* a dead end in the first turn, answered by a recovery turn with text
C7_Witness ==
    /\ pc = "returned"
    /\ purpose = "fallback"
    /\ iteration = 1
    /\ Head(result.response) = "hi"
    /\ Contains(result.skipped_tools_message, "Weather")

\* C8: the filter returns exactly the requests whose name is on the
\* allow-list, in their original order, with id, name and arguments unchanged.
C8_FilterKeepsAllowlistedInOrder ==
    filter_out.done =>
        LET expected == SelectSeq(filter_in, LAMBDA tc : tc.function.name \in ALLOWLISTED_TOOLS)
        IN /\ Len(filter_out.filtered) = Len(expected)
           /\ \A i \in 1..Len(expected) :
                 /\ filter_out.filtered[i].id = expected[i].id
                 /\ filter_out.filtered[i].function.name = expected[i].function.name
                 /\ filter_out.filtered[i].function.arguments = expected[i].function.arguments

\* three requests, the middle one denied, the outer two kept
C8_Witness ==
    /\ filter_out.done
    /\ Len(filter_in) = 3
    /\ filter_in[1].function.name = "update_user_preferences"
    /\ filter_in[2].function.name = "get_weather_for_location"
    /\ filter_in[3].function.name = "get_user_preferences"
    /\ Len(filter_out.filtered) = 2
    /\ filter_out.filtered[2].id = "call_2"

\* the tool names proposed to the loop in this call, in order
RECURSIVE Flatten(_)
Flatten(lists) == IF lists = << >> THEN << >> ELSE Head(lists) \o Flatten(Tail(lists))

\* the display names of the denied ones, each at its first occurrence
RECURSIVE FirstDenials(_)
FirstDenials(names) ==
    IF names = << >> THEN << >>
    ELSE LET before == FirstDenials(SubSeq(names, 1, Len(names) - 1))
             last == names[Len(names)]
             shown == IF last \in DOMAIN TOOL_DISPLAY_NAMES THEN TOOL_DISPLAY_NAMES[last] ELSE last
         IN IF last \in ALLOWLISTED_TOOLS \/ shown \in Range(before)
            THEN before ELSE Append(before, shown)

Occurrences(list, x) == Cardinality({ i \in 1..Len(list) : list[i] = x })

C10_SummaryTurn ==
    [][ /\ (pc = "exec" /\ iteration = 3 /\ tc_i = Len(tool_calls))
            => (pc' = "completion" /\ purpose' = "summary" /\ turn_requests' = 4)
        /\ (pc = "completion" /\ purpose = "summary") => \A t \in FinalTurns :
             SummaryTurn(t) =>
                /\ turn_requests = 4
                /\ iteration = 3
                /\ pc' = "returned"
                /\ turn_requests' = 4
                /\ result'.response =
                      (IF ~t.choices THEN MsgSummaryFailed
                       ELSE IF Truthy(t.content) THEN t.content ELSE MsgNoSummary)
                /\ result'.tool_results = all_tool_results
                /\ all_tool_results' = all_tool_results
                /\ last_invocation' = last_invocation
                /\ prefs' = prefs
                /\ \A i \in 1..Len(conversation_history') :
                      i > Len(conversation_history) =>
                         conversation_history'[i].role = "assistant" ]_vars

\* three executing turns, then the summary turn's text returned
C10_Witness ==
    /\ pc = "returned"
    /\ purpose = "summary"
    /\ turn_requests = 4
    /\ Len(result.tool_results) >= 3
    /\ result.response = <<"hi">>

\* the fixed sentences process_message answers an empty choice set with
FixedFallbacks == {MsgEmptyChoices, MsgTrouble, MsgSummaryFailed}

\* C11 as stated: at each of the three points where a turn is requested, a
\* completion with an empty choice set makes process_message return a fixed
\* generic sentence and never raise; in the main loop no further turn is
\* requested.
C11_EmptyChoicesFixedResponse ==
    [][ (LoopTurn(NoChoices) \/ FallbackTurn(NoChoices) \/ SummaryTurn(NoChoices)) =>
          /\ pc' = "returned"
          /\ result'.response \in FixedFallbacks
          /\ purpose = "loop" => turn_requests' = turn_requests ]_vars

\* C11 as amended: an empty choice set never raises and always returns; the
\* response is the fixed sentence of the call site in the main loop and after
\* the loop, and in the dead-end recovery it is the fixed sentence MsgTrouble
\* followed by the note quoting the advisory. In the main loop the return is
\* immediate: no further turn is requested and no message is appended.
C11_EmptyChoicesReturn ==
    [][ /\ LoopTurn(NoChoices) =>
             /\ pc' = "returned"
             /\ result'.response = MsgEmptyChoices
             /\ result'.tool_results = all_tool_results
             /\ turn_requests' = turn_requests
             /\ conversation_history' = conversation_history
        /\ FallbackTurn(NoChoices) =>
             /\ pc' = "returned"
             /\ result'.skipped_tools_message # NoneText
             /\ result'.response =
                   <<"I'm having trouble processing your request.", "\n\n", "(Note:">>
                   \o result'.skipped_tools_message \o <<")">>
        /\ SummaryTurn(NoChoices) =>
             /\ pc' = "returned"
             /\ result'.response = MsgSummaryFailed ]_vars

\* the recovery turn came back without choices and the call returned
C11_Witness ==
    /\ pc = "returned"
    /\ purpose = "fallback"
    /\ Head(result.response) = "I'm having trouble processing your request."
    /\ conversation_history[Len(conversation_history)] =
          [role |-> "assistant", content |-> MsgTrouble]

\* the tool names proposed to the loop in this call that have no registered callable
ProposedUnregistered == { n \in Range(Flatten(requested)) : n \notin TOOL_FUNCTIONS }

UnknownToolOutcome(n) == [error |-> <<"Unknown tool: ", n>>]

IsUnknownToolOutcome(r) == "error" \in DOMAIN r /\ r.error # << >> /\ Head(r.error) = "Unknown tool: "

ToolMessages(history) == SelectSeq(history, LAMBDA m : m.role = "tool")

\* C12 as stated: a request naming a tool without a registered callable has
\* the outcome {"error": "Unknown tool: <name>"} reported in tool_results of
\* the call that returns.
C12_UnknownToolReported ==
    pc = "returned" =>
        \A n \in ProposedUnregistered :
            \E i \in 1..Len(result.tool_results) :
                result.tool_results[i] = [tool |-> n, result |-> UnknownToolOutcome(n)]

\* C12 as amended: _execute_tool answers a name without a registered callable
\* with {"error": "Unknown tool: <name>"} and calls nothing, but process_message
\* never hands it such a name: the request is denied by the filter, its display
\* name is recorded for the advisory, no tool-result message is appended for
\* it and no outcome for it is in tool_results.
C12_UnknownToolDenied ==
    /\ \A n \in ProposedUnregistered :
          /\ execute_tool(n, << >>, user_id, prefs, "ok") =
                [result |-> UnknownToolOutcome(n), store |-> prefs, invocation |-> NoInvocation]
          /\ DisplayName(n) \in Range(all_skipped_tools)
    /\ \A i \in 1..Len(all_tool_results) :
          /\ all_tool_results[i].tool \in TOOL_FUNCTIONS
          /\ ~IsUnknownToolOutcome(all_tool_results[i].result)
    /\ Len(ToolMessages(conversation_history)) = Len(all_tool_results)
    /\ pc = "returned" => result.tool_results = all_tool_results

\* a turn proposed an unregistered name next to an allow-listed one; only the
\* latter was executed
C12_Witness ==
    /\ pc = "completion"
    /\ purpose = "loop"
    /\ Len(requested) = 1
    /\ "Weather" \in Range(requested[Len(requested)])
    /\ Len(requested[Len(requested)]) = 2
    /\ Len(all_tool_results) = 1
    /\ all_skipped_tools = <<"Weather">>

\* C13: an allow-listed request whose argument string is not valid JSON is
\* executed with empty arguments (only the injected user_id, where the tool
\* requires it); its tool-result message is appended, the next request of the
\* turn or the next turn request follows, and process_message does not raise.
C13_MalformedArgumentsRunEmpty ==
    [][ (pc = "exec" /\ ~JsonLoads(tool_calls[tc_i].function.arguments).ok) =>
          LET tool_call == tool_calls[tc_i]
              tool_name == tool_call.function.name
          IN /\ tool_name \in ALLOWLISTED_TOOLS
             /\ last_invocation'.tool = tool_name
             /\ DOMAIN last_invocation'.kwargs = ALL_TOOLS[tool_name] \cap {"user_id"}
             /\ Len(all_tool_results') = Len(all_tool_results) + 1
             /\ all_tool_results'[Len(all_tool_results')].tool = tool_name
             /\ conversation_history' =
                   Append(conversation_history,
                          [role |-> "tool", tool_call_id |-> tool_call.id,
                           content |-> Dumps(all_tool_results'[Len(all_tool_results')].result)])
             /\ pc' # "raised"
             /\ IF tc_i < Len(tool_calls)
                THEN pc' = "exec" /\ tc_i' = tc_i + 1
                ELSE pc' = "completion" /\ turn_requests' = turn_requests + 1 ]_vars

\* the first request of a turn had a malformed payload; it and the request
\* after it were executed and the next turn has been requested
C13_Witness ==
    /\ pc = "completion"
    /\ Len(tool_calls) = 2
    /\ ~JsonLoads(tool_calls[1].function.arguments).ok
    /\ tool_calls[2].function.name = "update_user_preferences"
    /\ Len(all_tool_results) = 2
    /\ ~last_invocation.raised
    /\ Len(ToolMessages(conversation_history)) = 2

\* C14: every result process_message returns carries a response that is
\* neither None nor the empty string, whatever the turns contained.
C14_ResponseNeverEmpty ==
    pc = "returned" =>
        /\ result.response # NoneText
        /\ result.response # << >>
        /\ \A i \in 1..Len(result.response) : result.response[i] \notin {None, ""}

\* the call returned after a summary turn without text
C14_Witness ==
    /\ pc = "returned"
    /\ purpose = "summary"
    /\ conversation_history[Len(conversation_history)] = [role |-> "assistant", content |-> << >>]
    /\ result.response = MsgNoSummary

UserEntries(history) == SelectSeq(history, LAMBDA m : m.role = "user")

\* the messages appended since the last user message
RECURSIVE SinceLastUser(_)
SinceLastUser(history) ==
    IF history = << >> \/ history[Len(history)].role = "user" THEN << >>
    ELSE Append(SinceLastUser(SubSeq(history, 1, Len(history) - 1)), history[Len(history)])

AssistantSinceLastUser ==
    \E i \in 1..Len(SinceLastUser(conversation_history)) :
        SinceLastUser(conversation_history)[i].role = "assistant"

\* one user message per call, in call order
OneUserMessagePerCall ==
    UserEntries(conversation_history) = [k \in 1..calls |-> [role |-> "user", content |-> SessionMessage(k)]]

C16_TransportFaultUserSafe ==
    (pc = "idle" /\ exc = "APIError") =>
        /\ http.status_code \in 500..599
        /\ \A i \in 1..Len(ExceptionText(exc)) : ~Contains(http.detail, ExceptionText(exc)[i])

\* the session user's record in the preferences file, defaults when absent
StoredPreferences == IF user_id \in DOMAIN prefs THEN prefs[user_id] ELSE DefaultPrefs(user_id)

\* C17: reset_conversation leaves exactly two system messages, the system
\* prompt and the preferences context of the session user's currently stored
\* preferences, whatever the history was; a reset right after a reset changes
\* nothing.
C17_ResetRebuildsHistory ==
    [][ ResetConversation =>
          /\ Len(conversation_history') = 2
          /\ conversation_history'[1] = [role |-> "system", content |-> SYSTEM_PROMPT]
          /\ conversation_history'[2] =
                [role |-> "system", content |-> build_preferences_context(StoredPreferences)]
          /\ (StoredPreferences.budget_max = "30" /\ StoredPreferences.budget_min = None)
                => Contains(conversation_history'[2].content, "up to $")
          /\ FreshHistory(prefs', user_id') = conversation_history'
          /\ (calls = 0 /\ Len(conversation_history) = 2)
                => conversation_history' = conversation_history ]_vars

\* a reset after a call that changed the stored preferences
C17_Witness ==
    /\ pc = "idle"
    /\ calls = 0
    /\ http.status_code = 200
    /\ Len(conversation_history) = 2
    /\ user_id \in DOMAIN prefs
    /\ Contains(conversation_history[2].content, "up to $")

\* the tool names a turn requests, in request order
RequestedNames(t) == [i \in 1..Len(t.tool_calls) |-> t.tool_calls[i].function.name]

\* a turn without text whose requests are all denied
DeadEndTurn(t) ==
    /\ t.choices
    /\ ~Truthy(t.content)
    /\ t.tool_calls # << >>
    /\ NoExecutable(t)

\* C18: in the dead-end case process_message appends one system note naming
\* the denied tools of that turn and requests exactly one more turn; whatever
\* that turn contains, the call returns right after it: its tool requests are
\* neither executed nor recorded and no loop iteration follows.
C18_DeadEndOneRecoveryTurn ==
    [][ /\ (pc = "completion" /\ purpose = "loop") => \A t \in Turns(LoopLimit) :
             (LoopTurn(t) /\ DeadEndTurn(t)) =>
                LET denied == FirstDenials(RequestedNames(t))
                    note == conversation_history'[Len(conversation_history')]
                IN /\ Len(conversation_history') = Len(conversation_history) + 2
                   /\ conversation_history'[Len(conversation_history) + 1] =
                         [role |-> "assistant", content |-> << >>]
                   /\ note.role = "system"
                   /\ note.content =
                         <<"The tools you requested (">> \o Join(", ", denied)
                         \o <<") are currently unavailable. ",
                              "Please provide a helpful response without using those tools, ",
                              "based on your general knowledge.">>
                   /\ pc' = "completion"
                   /\ purpose' = "fallback"
                   /\ turn_requests' = turn_requests + 1
                   /\ iteration' = iteration
        /\ (pc = "completion" /\ purpose = "fallback") => \A t \in FinalTurns :
             FallbackTurn(t) =>
                /\ pc' = "returned"
                /\ turn_requests' = turn_requests
                /\ iteration' = iteration
                /\ Len(conversation_history') = Len(conversation_history) + 1
                /\ DOMAIN conversation_history'[Len(conversation_history')] = {"role", "content"}
                /\ conversation_history'[Len(conversation_history')].role = "assistant"
                /\ all_tool_results' = all_tool_results
                /\ result'.tool_results = all_tool_results
                /\ all_skipped_tools' = all_skipped_tools
                /\ last_invocation' = last_invocation
                /\ prefs' = prefs ]_vars

\* a dead end in the second turn, after a turn that executed a tool; the call
\* returned after the recovery turn
C18_Witness ==
    /\ pc = "returned"
    /\ purpose = "fallback"
    /\ iteration = 2
    /\ turn_requests = 3
    /\ Len(all_tool_results) >= 1
    /\ conversation_history[Len(conversation_history) - 1].role = "system"

\* positions of the allow-listed names in a list of requested names
AllowedPositions(names) ==
    SelectSeq([i \in 1..Len(names) |-> i], LAMBDA i : names[i] \in ALLOWLISTED_TOOLS)

\* (request id, tool name) of the allow-listed requests of the call, turn by
\* turn, in request order
RECURSIVE ExpectedExecutions(_)
ExpectedExecutions(turns) ==
    IF turns = << >> THEN << >>
    ELSE LET names == turns[Len(turns)]
             pos == AllowedPositions(names)
         IN ExpectedExecutions(SubSeq(turns, 1, Len(turns) - 1))
            \o [k \in 1..Len(pos) |->
                  [id |-> "call_" \o ToString(pos[k] - 1), tool |-> names[pos[k]]]]

\* C19: for a turn with executable requests the history holds the assistant
\* message and then one tool-role message per allow-listed request, in
\* request order, each with the id of its request and the serialized outcome
\* as content; tool_results holds the same outcomes in the same order over
\* all turns of the call.
C19_ToolResultsInRequestOrder ==
    LET expected == ExpectedExecutions(requested)
        tool_messages == ToolMessages(conversation_history)
        n == Len(all_tool_results)
    IN /\ n <= Len(expected)
       /\ pc # "exec" => n = Len(expected)
       /\ Len(tool_messages) = n
       /\ \A j \in 1..n :
             /\ all_tool_results[j].tool = expected[j].tool
             /\ tool_messages[j].tool_call_id = expected[j].id
             /\ tool_messages[j].content = Dumps(all_tool_results[j].result)
       /\ \A a \in 1..Len(conversation_history) :
             LET m == conversation_history[a] IN
             (m.role = "assistant" /\ "tool_calls" \in DOMAIN m) =>
                /\ \A i \in 1..Len(m.tool_calls) :
                      a + i <= Len(conversation_history) =>
                         /\ conversation_history[a + i].role = "tool"
                         /\ conversation_history[a + i].tool_call_id = m.tool_calls[i].id
                /\ a + Len(m.tool_calls) + 1 <= Len(conversation_history)
                      => conversation_history[a + Len(m.tool_calls) + 1].role # "tool"
                /\ pc # "exec" => a + Len(m.tool_calls) <= Len(conversation_history)
       /\ \A a \in 2..Len(conversation_history) :
             conversation_history[a].role = "tool"
                => conversation_history[a - 1].role \in {"assistant", "tool"}
       /\ pc = "returned" => result.tool_results = all_tool_results

\* a call that returned after two executing turns; in the first one a denied
\* request preceded the allow-listed one
C19_Witness ==
    /\ pc = "returned"
    /\ Len(requested) >= 2
    /\ Len(requested[1]) = 2
    /\ requested[1][1] \notin ALLOWLISTED_TOOLS
    /\ requested[1][2] \in ALLOWLISTED_TOOLS
    /\ Len(result.tool_results) >= 2
    /\ ToolMessages(conversation_history)[1].tool_call_id = "call_1"

\* a turn with text and at least one allow-listed request
TextAndExecutable(t) ==
    /\ t.choices
    /\ Truthy(t.content)
    /\ ~NoExecutable(t)

\* C20: a turn that carries text and an allow-listed request does not end
\* the call with its text: the assistant message is appended with text and
\* requests, the requests are executed, and after the last one another turn
\* is requested.
C20_TextWithToolsStillExecutes ==
    [][ /\ (pc = "completion" /\ purpose = "loop") => \A t \in Turns(LoopLimit) :
             (LoopTurn(t) /\ TextAndExecutable(t)) =>
                LET kept == SelectSeq(t.tool_calls,
                                      LAMBDA tc : tc.function.name \in ALLOWLISTED_TOOLS)
                    appended == conversation_history'[Len(conversation_history')]
                IN /\ pc' = "exec"
                   /\ result' = result
                   /\ Len(conversation_history') = Len(conversation_history) + 1
                   /\ appended.role = "assistant"
                   /\ appended.content = t.content
                   /\ Len(appended.tool_calls) = Len(kept)
                   /\ \A i \in 1..Len(kept) : appended.tool_calls[i].id = kept[i].id
                   /\ tool_calls' = appended.tool_calls
                   /\ tc_i' = 1
        /\ (pc = "exec" /\ content # << >>) =>
              /\ Len(all_tool_results') = Len(all_tool_results) + 1
              /\ all_tool_results'[Len(all_tool_results')].tool = tool_calls[tc_i].function.name
              /\ IF tc_i < Len(tool_calls)
                 THEN pc' = "exec" /\ tc_i' = tc_i + 1
                 ELSE pc' = "completion" /\ turn_requests' = turn_requests + 1 ]_vars

\* the first turn carried text and an allow-listed request; the request was
\* executed and the second turn has been requested
C20_Witness ==
    /\ pc = "completion"
    /\ iteration = 2
    /\ turn_requests = 2
    /\ content = <<"hi">>
    /\ Len(tool_calls) = 1
    /\ Len(all_tool_results) = 1
    /\ result = NoResult

\* the turn a stand-in completion step receives, whatever its call site
StandInStep(t) == LoopTurn(t) \/ FallbackTurn(t) \/ SummaryTurn(t)

\* the names and payloads a turn requests, in order
RequestsOf(t) ==
    [i \in 1..Len(t.tool_calls) |->
        [name |-> t.tool_calls[i].function.name, arguments |-> t.tool_calls[i].function.arguments]]

\* C21: with the OpenRouter API disabled, the first turn request of a process_message
\* call returns the selected scenario's tool requests and no text when the scenario
\* has tool requests, every later turn request of the call returns the scenario's
\* final text and no tool requests, and the phase counter restarts at every call
C21_StandInPhases ==
    [][ /\ (~ENABLE_OPENROUTER_API /\ pc = "idle" /\ pc' = "completion") =>
             (_mock_iteration' = 0 /\ _mock_scenario' \in MOCK_RESPONSES_WITH_TOOLS)
        /\ (~ENABLE_OPENROUTER_API /\ pc = "completion") =>
             \A t \in MockTurns :
                StandInStep(t) =>
                    IF turn_requests = 1 /\ _mock_scenario.tool_calls # << >>
                    THEN /\ RequestsOf(t) = _mock_scenario.tool_calls
                         /\ t.content = NoneText
                    ELSE /\ t.tool_calls = << >>
                         /\ t.content = _mock_scenario.response ]_vars

\* the second call on the orchestrator went through the tool-request phase and then
\* got the final text
C21_Witness ==
    /\ ~ENABLE_OPENROUTER_API
    /\ calls = 2
    /\ pc = "returned"
    /\ turn_requests = 2
    /\ requested = << <<"get_weather_for_location">> >>
    /\ conversation_history[Len(conversation_history)].content = _mock_scenario.response
    /\ http.status_code # 0
\* list a is a prefix of list b
IsPrefix(a, b) == Len(a) <= Len(b) /\ SubSeq(b, 1, Len(a)) = a

\* C22: during one process_message call conversation_history is append-only: every
\* step of the call, the raising ones included, leaves the earlier history as a prefix
C22_HistoryAppendOnly ==
    [][ (pc # "idle" \/ pc' = "completion") =>
            IsPrefix(conversation_history, conversation_history') ]_vars

\* a call that appended a user message, a turn with a request and a tool result,
\* and then ended by raising
C22_Witness ==
    /\ pc = "raised"
    /\ exc = "UnboundLocalError"
    /\ Len(SinceLastUser(conversation_history)) >= 3
    /\ \E i \in 1..Len(conversation_history) : conversation_history[i].role = "tool"
\* the requests whose process_message execution has started and not ended
Executing == {r \in ChatRequests : tasks[r] = "running"}

\* C23: two /chat requests with the same user_id in one server process do not
\* interleave on the shared orchestrator: at most one process_message execution is
\* in progress, and while one is, every step that appends to the history or writes
\* the stand-in state is its own and no other request's call starts or resets that state
C23_CallsDoNotInterleave ==
    /\ [](Cardinality(Executing) <= 1)
    /\ [][ \A r \in Executing :
            /\ \A q \in ChatRequests \ {r} : tasks'[q] = tasks[q]
            /\ (conversation_history' # conversation_history \/ _mock_iteration' # _mock_iteration)
                 => /\ loop_task = r
                    /\ IsPrefix(conversation_history, conversation_history')
                    /\ Len(UserEntries(conversation_history')) = Len(UserEntries(conversation_history))
                    /\ _mock_iteration' >= _mock_iteration
            /\ _mock_scenario' = _mock_scenario ]_vars

\* both requests were handled, the second one's block following the first one's
C23_Witness ==
    /\ \A r \in ChatRequests : tasks[r] = "responded"
    /\ Len(UserEntries(conversation_history)) = MaxCalls
    /\ \E i \in 1..Len(conversation_history) : conversation_history[i].role = "tool"
    /\ conversation_history[3].content = SessionMessage(2)
\* C24: every name with a callable in TOOL_FUNCTIONS has exactly one schema
\* declaration in ALL_TOOLS, every declaration has a callable, every allow-listed
\* name is a registered tool, and this holds in every state process_message, tool
\* execution and reset_conversation lead to (no operation writes the registry, the
\* allow-list or the display-name map)
C24_RegistryConsistent ==
    /\ \A n \in TOOL_FUNCTIONS : Occurrences(DeclaredNames, n) = 1
    /\ Range(DeclaredNames) \subseteq TOOL_FUNCTIONS
    /\ DOMAIN ALL_TOOLS = Range(DeclaredNames)
    /\ ALLOWLISTED_TOOLS \subseteq TOOL_FUNCTIONS \cap Range(DeclaredNames)
    /\ last_invocation.tool # None =>
            last_invocation.tool \in ALLOWLISTED_TOOLS \cap TOOL_FUNCTIONS \cap DOMAIN ALL_TOOLS

\* a call executed a tool, answered, and the conversation was reset
C24_Witness ==
    /\ last_invocation.tool = "update_user_preferences"
    /\ http.status_code = 200
    /\ calls = 0
    /\ pc = "idle"
\* the record of uid before the call: the stored one, or the default one created first
RecordBefore(store, uid) == IF uid \in DOMAIN store THEN store[uid] ELSE DefaultPrefs(uid)

\* C25: update_user_preferences on the JSON store changes only the fields supplied
\* with non-None values in that user's record (a default record being created first
\* when the user has none), leaves every other field and every other user's record
\* unchanged, and returns the record as stored afterwards
C25_UpdateChangesSuppliedFieldsOnly ==
    update_call.done =>
        LET uid == update_call.user_id
            before == RecordBefore(update_call.store, uid)
            stored == update_call.after[uid]
        IN /\ DOMAIN update_call.after = DOMAIN update_call.store \cup {uid}
           /\ \A u \in DOMAIN update_call.store \ {uid} :
                update_call.after[u] = update_call.store[u]
           /\ stored.user_id = before.user_id
           /\ stored.location = IF update_call.location # None THEN update_call.location
                                ELSE before.location
           /\ stored.interests = IF update_call.interests # NoneText THEN update_call.interests
                                 ELSE before.interests
           /\ stored.budget_min = IF update_call.budget_min # None THEN update_call.budget_min
                                  ELSE before.budget_min
           /\ stored.budget_max = IF update_call.budget_max # None THEN update_call.budget_max
                                  ELSE before.budget_max
           /\ update_call.returned = stored

\* a partial update of a filled record, next to another user's record
C25_Witness ==
    /\ update_call.done
    /\ update_call.user_id = "alice"
    /\ DOMAIN update_call.store = Users
    /\ update_call.store["alice"] = StoredRecord("alice")
    /\ update_call.location = None
    /\ update_call.budget_max = "30"
    /\ update_call.after["alice"].location = "NYC"
    /\ update_call.after["alice"].budget_max = "30"
\* C26: start_scraper_scheduler returns True and marks the scheduler running when
\* it is not running, and returns False without creating a thread when it is;
\* stop_scraper_scheduler returns True and marks it not running when it is running,
\* and returns False otherwise; between calls is_scheduler_running() is the state
\* set by the last call that returned True
C26_StartStopReturnValues ==
    callers[1].pc = "idle" =>
        /\ callers[1].op = "start" =>
             /\ callers[1].ret = (IF callers[1].pre THEN "False" ELSE "True")
             /\ callers[1].ret = "True" => (is_scheduler_running /\ callers[1].created)
             /\ callers[1].ret = "False" => (is_scheduler_running /\ ~callers[1].created)
        /\ callers[1].op = "stop" =>
             /\ callers[1].ret = (IF callers[1].pre THEN "True" ELSE "False")
             /\ ~is_scheduler_running
        /\ is_scheduler_running = (last_true = "start")
        /\ Len(threads) = Len(events)

\* a start refused while running, after an earlier start, stop and start
C26_Witness ==
    /\ callers[1] = [pc |-> "idle", op |-> "start", pre |-> TRUE, ret |-> "False",
                     created |-> FALSE]
    /\ Len(threads) = 2
    /\ last_true = "start"
    /\ is_scheduler_running

\* C30: across any sequence and interleaving of start_scraper_scheduler and
\* stop_scraper_scheduler calls, at most one scraper loop thread is alive at any
\* time, so run_scrape_job never runs concurrently with itself
C30_AtMostOneLoopThread ==
    /\ Cardinality(Alive) <= 1
    /\ Cardinality({ t \in 1..Len(threads) : threads[t].state = "scraping" }) <= 1
\* a loop turn of this call requested a tool that is not allow-listed
DeniedDuringCall ==
    \E i \in 1..Len(requested) : \E j \in 1..Len(requested[i]) :
        requested[i][j] \notin ALLOWLISTED_TOOLS

\* C27: in every result process_message returns, skipped_tools_message is non-null
\* exactly when at least one tool request was denied during the call, on every
\* return path
C27_AdvisoryIffDenied ==
    pc = "returned" => ((result.skipped_tools_message # NoneText) <=> DeniedDuringCall)
\* C28: for every argument payload string of an allow-listed tool request, valid
\* JSON that decodes to a list, null, a number or a string included, and for tools
\* that require user_id too, executing the request produces a tool-result message
\* and process_message does not raise
C28_EveryPayloadYieldsToolResult ==
    [][ pc = "exec" =>
          /\ pc' # "raised"
          /\ Len(conversation_history') = Len(conversation_history) + 1
          /\ conversation_history'[Len(conversation_history')].role = "tool"
          /\ conversation_history'[Len(conversation_history')].tool_call_id = tool_calls[tc_i].id
      ]_vars
\* the position of the nearest assistant message before position a, 0 when none
RECURSIVE NearestAssistantBefore(_, _)
NearestAssistantBefore(history, a) ==
    IF a <= 1 THEN 0
    ELSE IF history[a - 1].role = "assistant" THEN a - 1
    ELSE NearestAssistantBefore(history, a - 1)

\* C29: in every reachable conversation_history each tool-role message's
\* tool_call_id is the id of a tool call listed in the nearest preceding assistant
\* message, and assistant messages list only allow-listed tool calls: a denied
\* request is never recorded, and an assistant message whose requests were all
\* denied carries no tool_calls field
C29_HistoryToolCallsConsistent ==
    \A a \in 1..Len(conversation_history) :
        LET m == conversation_history[a]
            b == NearestAssistantBefore(conversation_history, a)
        IN /\ m.role = "tool" =>
                /\ b # 0
                /\ "tool_calls" \in DOMAIN conversation_history[b]
                /\ \E i \in 1..Len(conversation_history[b].tool_calls) :
                      conversation_history[b].tool_calls[i].id = m.tool_call_id
           /\ (m.role = "assistant" /\ "tool_calls" \in DOMAIN m) =>
                /\ m.tool_calls # << >>
                /\ \A i \in 1..Len(m.tool_calls) :
                      m.tool_calls[i].function.name \in ALLOWLISTED_TOOLS

\* one call whose only request was denied, then a call whose turn mixed a kept
\* request with two denied ones and whose kept request was executed
C29_Witness ==
    /\ Len(UserEntries(conversation_history)) = 2
    /\ requested = << <<"get_user_preferences", "get_weather_for_location", "scrape_activities">>,
                      << >> >>
    /\ pc = "raised"
    /\ \E a \in 1..Len(conversation_history) :
          /\ conversation_history[a].role = "assistant"
          /\ "tool_calls" \notin DOMAIN conversation_history[a]
          /\ a < Len(conversation_history)
          /\ conversation_history[a + 1].role = "system"
    /\ \E a \in 2..Len(conversation_history) :
          /\ conversation_history[a].role = "tool"
          /\ conversation_history[a].tool_call_id = "call_mock_0"
          /\ Len(conversation_history[a - 1].tool_calls) = 1
====
